---- MODULE Spec2Model ----
(***************************************************************************)
(* Model of chat-p2p's connection engine (src/src/server.rs) and of the    *)
(* calls the consumer makes on it (src/src/main.rs).                       *)
(*                                                                         *)
(* Threads: the network loop spawned by Server::listen, and caller threads *)
(* that use send_message / get_messages / number_of_connections and the    *)
(* key listing of ui().  The shared state is the Mutex-guarded HashMap     *)
(* `connections`.  The environment is the TCP peers: they connect, send    *)
(* bytes and close.                                                        *)
(***************************************************************************)
EXTENDS Integers, Sequences, FiniteSets, TLC

\* ---------------------------------------------------------------- bounds
MaxConns == 2
\* bytes a socket's receive buffer holds at most in the model
MaxRx == 3
\* chunks all clients together send
MaxClientSends == 1
\* send_message calls all callers together make
MaxSends == 1
\* caller threads
NumCallers == 1
\* scaled length of the read buffer `buf` ([0u8; 512] in the source)
BufLen == 2

\* ------------------------------------------------------------- constants
SERVER == 0
\* the thread spawned by listen; callers are 1..NumCallers
LoopThread == 0
\* the main thread, which owns the App and runs the UI
UiThread == 1

Callers == 1..NumCallers
ConnIds == 1..MaxConns
\* identities a caller may name: every assignable one and one never assigned
CallIds == 1..(MaxConns + 1)

\* bytes: NUL, 'a', 'b', a two-byte UTF-8 character (195 169), a byte that
\* is never valid UTF-8 (255)
ClientChunks == {<<97>>, <<97, 0>>, <<195, 169>>, <<255>>}
OutTexts == {<<98>>}

VARIABLES
  connections,   \* HashMap<usize, (TcpStream, Vec<String>)>: id -> messages
  lock,          \* threads holding a guard of the Mutex ({} when free)
  poisoned,      \* the Mutex's poison flag
  socket_index,  \* the loop's next identity
  loop_pc,       \* position of the loop thread
  events,        \* events of the current batch not yet handled
  panic_at,      \* source line at which the loop thread panicked, 0 if none
  pending,       \* connections waiting in the listener's accept queue
  ready,         \* tokens with an undelivered readiness edge
  sock,          \* id -> [rx, peer]: the peer's side of each accepted stream
  nclient,       \* chunks sent by clients so far
  cpc,           \* caller -> position
  carg,          \* caller -> arguments of the call in progress
  cres,          \* caller -> what its last call returned
  nsend,         \* send_message calls started so far
  current_chat,  \* App.current_chat: <<>> for None, <<n>> for Some(n)
  assigned,      \* history: identities in the order they were inserted
  accepted,      \* history: tokens registered for accepted streams
  nticket,       \* history: lock acquisitions by appending operations
  tick,          \* history: thread -> ticket of its current acquisition
  appended,      \* history: id -> set of <<ticket, text>> pushed
  last_read,     \* history: the loop's last read: [id, outcome]
  poison_cause   \* history: source line of the panic that poisoned the Mutex

vars == <<connections, lock, poisoned, socket_index, loop_pc, events, panic_at,
          pending, ready, sock, nclient, cpc, carg, cres, nsend, current_chat,
          assigned, accepted, nticket, tick, appended, last_read, poison_cause>>

loopVars == <<socket_index, loop_pc, events, panic_at>>
envVars == <<pending, ready, sock, nclient>>
callerVars == <<cpc, carg, cres, nsend, current_chat>>
histVars == <<assigned, accepted, nticket, tick, appended, last_read, poison_cause>>

\* ------------------------------------------------------------ helpers
RECURSIVE SeqsOf(_)
SeqsOf(S) ==
  IF S = {} THEN {<<>>}
  ELSE UNION {{<<x>> \o s : s \in SeqsOf(S \ {x})} : x \in S}

RECURSIVE SortedSeq(_)
SortedSeq(S) ==
  IF S = {} THEN <<>>
  ELSE LET m == CHOOSE x \in S : \A y \in S : x <= y
       IN <<m>> \o SortedSeq(S \ {m})

Min(a, b) == IF a <= b THEN a ELSE b

IsPrefix(s, t) ==
  /\ Len(s) <= Len(t)
  /\ \A i \in 1..Len(s) : s[i] = t[i]

NoRes == [op |-> "none", id |-> 0, outcome |-> "none", val |-> <<>>]
NoRead == [id |-> 0, outcome |-> "none"]
NoArg == [op |-> "none", id |-> 0, text |-> <<>>]

Put(f, k, v) == [x \in DOMAIN f \cup {k} |-> IF x = k THEN v ELSE f[x]]

\* ------------------------------------------------- decoding of a read
RECURSIVE Zeros(_)
Zeros(n) == IF n <= 0 THEN <<>> ELSE <<0>> \o Zeros(n - 1)

\* buf after stream.read(&mut buf) returned Ok(Len(bytes)): the bytes read,
\* then the zeros the buffer was created with
FillBuf(bytes) == bytes \o Zeros(BufLen - Len(bytes))

\* String::from_utf8 accepts: ASCII, and a two-byte lead (194..223) followed
\* by a continuation byte (128..191).  Longer forms do not occur in the
\* model's alphabet and are rejected.
RECURSIVE Utf8Valid(_)
Utf8Valid(b) ==
  IF b = <<>> THEN TRUE
  ELSE IF b[1] < 128 THEN Utf8Valid(Tail(b))
  ELSE IF b[1] >= 194 /\ b[1] <= 223
    THEN /\ Len(b) >= 2
         /\ b[2] >= 128 /\ b[2] <= 191
         /\ Utf8Valid(Tail(Tail(b)))
  ELSE FALSE

\* trim_end_matches(char::from(0))
RECURSIVE TrimEndNul(_)
TrimEndNul(s) ==
  IF s # <<>> /\ s[Len(s)] = 0 THEN TrimEndNul(SubSeq(s, 1, Len(s) - 1)) ELSE s

\* what stream.read returns for a socket: "data" (Ok(k), k > 0, at most the
\* buffer's length), "eof" (Ok(0)) once the peer has closed, "err" (Err of a
\* reset connection), "wouldblock" (Err(WouldBlock) on an open idle socket)
ReadKind(s) ==
  IF s.rx # <<>> THEN "data"
  ELSE IF s.peer = "closed" THEN "eof"
  ELSE IF s.peer = "reset" THEN "err"
  ELSE "wouldblock"

ReadBytes(s) == SubSeq(s.rx, 1, Min(Len(s.rx), BufLen))
RestBytes(s) == SubSeq(s.rx, Min(Len(s.rx), BufLen) + 1, Len(s.rx))

\* faulty variant of Push: the entry is put at the front
PushFront(messages, text) == <<text>> \o messages

\* messages.push(..)
Push(messages, text) == Append(messages, text)

\* --------------------------------------------------------- the Mutex
\* faulty variant of LockFree: lock() does not wait for the other guard to be dropped
LockNoWait == TRUE

\* lock() returns once no other guard is alive
LockFree == lock = {}

Threads == {LoopThread} \cup Callers

\* ----------------------------------------------------------- Init
Init ==
  /\ connections = <<>>
  /\ lock = {}
  /\ poisoned = FALSE
  /\ socket_index = 1
  /\ loop_pc = "bind"
  /\ events = <<>>
  /\ panic_at = 0
  /\ pending = 0
  /\ ready = {}
  /\ sock = <<>>
  /\ nclient = 0
  /\ cpc = [c \in Callers |-> "idle"]
  /\ carg = [c \in Callers |-> NoArg]
  /\ cres = [c \in Callers |-> NoRes]
  /\ nsend = 0
  /\ current_chat = <<>>
  /\ assigned = <<>>
  /\ accepted = {}
  /\ nticket = 0
  /\ tick = [t \in Threads |-> 0]
  /\ appended = <<>>
  /\ last_read = NoRead
  /\ poison_cause = 0

\* ------------------------------------------------- the network loop
\* faulty variant of NextIndex: the increment is forgotten
NextIndexStuck(i) == i

\* socket_index += 1
NextIndex(i) == i + 1

\* faulty variant of Insert: the record is stored under the index counted from 0
InsertOffByOne(conns, id) == Put(conns, id - 1, <<>>)

\* conns.insert(socket_index, (stream, Vec::new()))
Insert(conns, id) == Put(conns, id, <<>>)

\* the loop goes on to the next event of the batch, or back to poll
Advance ==
  /\ events' = Tail(events)
  /\ loop_pc' = IF Len(events) > 1 THEN "dispatch" ELSE "poll"

\* the spawned thread binds the listener, creates the Poll and registers the
\* listener under SERVER
LoopBind ==
  /\ loop_pc = "bind"
  /\ loop_pc' = "poll"
  /\ UNCHANGED <<connections, lock, poisoned, socket_index, events, panic_at>>
  /\ UNCHANGED envVars
  /\ UNCHANGED callerVars
  /\ UNCHANGED histVars

\* TcpListener::bind(addr).unwrap_or_else(|_| panic!(..)): the address cannot
\* be bound and the spawned thread panics; listen() has long returned
LoopBindFail ==
  /\ loop_pc = "bind"
  /\ loop_pc' = "panicked"
  /\ panic_at' = 57
  /\ UNCHANGED <<connections, lock, poisoned, socket_index, events>>
  /\ UNCHANGED envVars
  /\ UNCHANGED callerVars
  /\ UNCHANGED histVars

\* poll.poll(&mut events, None): blocks until some registered socket is
\* ready, and returns every ready token once (edge-triggered)
LoopPoll ==
  /\ loop_pc = "poll"
  /\ ready # {}
  /\ \E es \in SeqsOf(ready) : events' = es
  /\ ready' = {}
  /\ loop_pc' = "dispatch"
  /\ last_read' = NoRead
  /\ UNCHANGED <<connections, lock, poisoned, socket_index, panic_at,
                 pending, sock, nclient>>
  /\ UNCHANGED callerVars
  /\ UNCHANGED <<assigned, accepted, nticket, tick, appended, poison_cause>>

\* SERVER => server.accept().expect(..): the accept fails (nothing pending,
\* or an OS error such as EMFILE or ECONNABORTED) and the thread panics; no
\* guard is alive, so the Mutex is not poisoned
LoopAcceptFail ==
  /\ loop_pc = "dispatch"
  /\ Head(events) = SERVER
  /\ loop_pc' = "panicked"
  /\ panic_at' = 81
  /\ UNCHANGED <<connections, lock, poisoned, socket_index, events>>
  /\ UNCHANGED envVars
  /\ UNCHANGED callerVars
  /\ UNCHANGED histVars

\* SERVER => one accept, and the stream is registered under Token(socket_index)
LoopAccept ==
  /\ loop_pc = "dispatch"
  /\ Head(events) = SERVER
  /\ pending > 0
  /\ pending' = pending - 1
  /\ sock' = Put(sock, socket_index, [rx |-> <<>>, peer |-> "open"])
  /\ accepted' = accepted \cup {socket_index}
  /\ loop_pc' = "insert"
  /\ UNCHANGED <<connections, lock, poisoned, socket_index, events, panic_at,
                 ready, nclient>>
  /\ UNCHANGED callerVars
  /\ UNCHANGED <<assigned, nticket, tick, appended, last_read, poison_cause>>

\* connections.lock().unwrap() of the accept arm
LoopInsertLock ==
  /\ loop_pc = "insert"
  /\ LockFree
  /\ IF poisoned
       THEN /\ loop_pc' = "panicked"
            /\ panic_at' = 92
            /\ UNCHANGED lock
       ELSE /\ loop_pc' = "insert_locked"
            /\ lock' = lock \cup {LoopThread}
            /\ UNCHANGED panic_at
  /\ UNCHANGED <<connections, poisoned, socket_index, events>>
  /\ UNCHANGED envVars
  /\ UNCHANGED callerVars
  /\ UNCHANGED histVars

\* conns.insert(..); the guard is dropped; socket_index += 1
LoopInsert ==
  /\ loop_pc = "insert_locked"
  /\ connections' = Insert(connections, socket_index)
  /\ appended' = Put(appended, socket_index, {})
  /\ assigned' = Append(assigned, socket_index)
  /\ socket_index' = NextIndex(socket_index)
  /\ lock' = lock \ {LoopThread}
  /\ Advance
  /\ UNCHANGED <<poisoned, panic_at>>
  /\ UNCHANGED envVars
  /\ UNCHANGED callerVars
  /\ UNCHANGED <<accepted, nticket, tick, last_read, poison_cause>>

\* Token(n) => connections.lock().unwrap()
LoopReadLock ==
  /\ loop_pc = "dispatch"
  /\ Head(events) # SERVER
  /\ LockFree
  /\ IF poisoned
       THEN /\ loop_pc' = "panicked"
            /\ panic_at' = 100
            /\ UNCHANGED <<lock, nticket, tick>>
       ELSE /\ loop_pc' = "read_locked"
            /\ lock' = lock \cup {LoopThread}
            /\ nticket' = nticket + 1
            /\ tick' = [tick EXCEPT ![LoopThread] = nticket + 1]
            /\ UNCHANGED panic_at
  /\ UNCHANGED <<connections, poisoned, socket_index, events>>
  /\ UNCHANGED envVars
  /\ UNCHANGED callerVars
  /\ UNCHANGED <<assigned, accepted, appended, last_read, poison_cause>>

\* the entry pushed for a read that returned Ok(_): the whole buffer decoded,
\* with the trailing NULs trimmed
Decoded(bytes) == TrimEndNul(FillBuf(bytes))

\* Token(n) => get_mut(&n).unwrap(), the read, the push; the guard is dropped.
\* Streams are registered with Interest::READABLE only and every event the
\* peers cause (data, FIN, RST) is readable, so event.is_readable() holds.
LoopRead ==
  /\ loop_pc = "read_locked"
  /\ LET n == Head(events) IN
     IF n \notin DOMAIN connections
       THEN \* line 101: unwrap on None, with the guard alive
            /\ loop_pc' = "panicked"
            /\ panic_at' = 101
            /\ poisoned' = TRUE
            /\ lock' = lock \ {LoopThread}
            /\ poison_cause' = 101
            /\ UNCHANGED <<connections, events, sock, appended, last_read>>
       ELSE LET s == sock[n]
                kind == ReadKind(s)
                bytes == IF kind = "data" THEN ReadBytes(s) ELSE <<>>
            IN
            /\ sock' = [sock EXCEPT ![n].rx = IF kind = "data"
                                                THEN RestBytes(s) ELSE @]
            /\ IF kind \in {"data", "eof"}
                 THEN IF Utf8Valid(FillBuf(bytes))
                        THEN /\ connections' =
                                  [connections EXCEPT
                                     ![n] = Push(@, Decoded(bytes))]
                             /\ appended' =
                                  [appended EXCEPT
                                     ![n] = @ \cup {<<tick[LoopThread],
                                                      Decoded(bytes)>>}]
                             /\ last_read' = [id |-> n, outcome |-> kind]
                             /\ lock' = lock \ {LoopThread}
                             /\ Advance
                             /\ UNCHANGED <<poisoned, panic_at, poison_cause>>
                        ELSE \* line 108: unwrap on Err, with the guard alive
                             /\ loop_pc' = "panicked"
                             /\ panic_at' = 108
                             /\ poisoned' = TRUE
                             /\ lock' = lock \ {LoopThread}
                             /\ last_read' = [id |-> n, outcome |-> "invalid"]
                             /\ poison_cause' = 108
                             /\ UNCHANGED <<connections, events, appended>>
                 ELSE \* Err(e) => {}
                      /\ last_read' = [id |-> n, outcome |-> kind]
                      /\ lock' = lock \ {LoopThread}
                      /\ Advance
                      /\ UNCHANGED <<connections, poisoned, panic_at, appended,
                                     poison_cause>>
  /\ UNCHANGED <<socket_index, pending, ready, nclient>>
  /\ UNCHANGED callerVars
  /\ UNCHANGED <<assigned, accepted, nticket, tick>>

\* ------------------------------------------------------- the peers
\* a peer connects to the listener, which lives in the loop thread from the
\* bind until that thread ends
ClientConnect ==
  /\ loop_pc \notin {"bind", "panicked"}
  /\ pending + Cardinality(DOMAIN sock) < MaxConns
  /\ pending' = pending + 1
  /\ ready' = ready \cup {SERVER}
  /\ UNCHANGED <<connections, lock, poisoned, sock, nclient>>
  /\ UNCHANGED loopVars
  /\ UNCHANGED callerVars
  /\ UNCHANGED histVars

ClientSend(n, chunk) ==
  /\ n \in DOMAIN sock
  /\ sock[n].peer = "open"
  /\ nclient < MaxClientSends
  /\ Len(sock[n].rx) + Len(chunk) <= MaxRx
  /\ sock' = [sock EXCEPT ![n].rx = @ \o chunk]
  /\ ready' = ready \cup {n}
  /\ nclient' = nclient + 1
  /\ UNCHANGED <<connections, lock, poisoned, pending>>
  /\ UNCHANGED loopVars
  /\ UNCHANGED callerVars
  /\ UNCHANGED histVars

\* the peer closes its end (FIN): reads return what is buffered, then Ok(0)
ClientClose(n) ==
  /\ n \in DOMAIN sock
  /\ sock[n].peer = "open"
  /\ sock' = [sock EXCEPT ![n].peer = "closed"]
  /\ ready' = ready \cup {n}
  /\ UNCHANGED <<connections, lock, poisoned, pending, nclient>>
  /\ UNCHANGED loopVars
  /\ UNCHANGED callerVars
  /\ UNCHANGED histVars

\* the peer resets the connection (RST): unread bytes are gone, reads fail
ClientReset(n) ==
  /\ n \in DOMAIN sock
  /\ sock[n].peer = "open"
  /\ sock' = [sock EXCEPT ![n] = [rx |-> <<>>, peer |-> "reset"]]
  /\ ready' = ready \cup {n}
  /\ UNCHANGED <<connections, lock, poisoned, pending, nclient>>
  /\ UNCHANGED loopVars
  /\ UNCHANGED callerVars
  /\ UNCHANGED histVars

\* ------------------------------------------------------ the callers
\* a caller thread calls an operation of the Server: every one of them begins
\* with self.connections.lock().unwrap(), which returns once the Mutex is free
\* and panics when it is poisoned
CallLock(c, op, id, text) ==
  /\ cpc[c] = "idle"
  /\ op = "send" => nsend < MaxSends
  /\ op \in {"next", "previous"} => c = UiThread
  /\ op = "previous" => current_chat = <<0>>
  /\ LockFree
  /\ nsend' = IF op = "send" THEN nsend + 1 ELSE nsend
  /\ IF poisoned
       THEN /\ cpc' = [cpc EXCEPT ![c] = "panicked"]
            /\ cres' = [cres EXCEPT ![c] = [op |-> op, id |-> id,
                                            outcome |-> "poisoned", val |-> <<>>]]
            /\ UNCHANGED <<lock, carg, nticket, tick>>
       ELSE /\ cpc' = [cpc EXCEPT ![c] = "locked"]
            /\ carg' = [carg EXCEPT ![c] = [op |-> op, id |-> id, text |-> text]]
            /\ cres' = [cres EXCEPT ![c] = NoRes]
            /\ lock' = lock \cup {c}
            /\ nticket' = IF op = "send" THEN nticket + 1 ELSE nticket
            /\ tick' = IF op = "send" THEN [tick EXCEPT ![c] = nticket + 1] ELSE tick
  /\ UNCHANGED <<connections, poisoned, current_chat>>
  /\ UNCHANGED loopVars
  /\ UNCHANGED envVars
  /\ UNCHANGED <<assigned, accepted, appended, last_read, poison_cause>>

\* stream.write_all(message.as_bytes()): may fail on any socket (WouldBlock on
\* a full send buffer, EPIPE), and always fails on a reset one
WriteOutcomes(s) == IF s.peer = "reset" THEN {FALSE} ELSE {TRUE, FALSE}

\* faulty variant of Done: the operation returns with its guard still alive
DoneKeepsGuard(c, outcome, val) ==
  /\ cpc' = [cpc EXCEPT ![c] = "idle"]
  /\ cres' = [cres EXCEPT ![c] = [op |-> carg[c].op, id |-> carg[c].id,
                                  outcome |-> outcome, val |-> val]]
  /\ carg' = [carg EXCEPT ![c] = NoArg]
  /\ lock' = lock

\* the operation returns: its result is the caller's, and the guard is dropped
Done(c, outcome, val) ==
  /\ cpc' = [cpc EXCEPT ![c] = "idle"]
  /\ cres' = [cres EXCEPT ![c] = [op |-> carg[c].op, id |-> carg[c].id,
                                  outcome |-> outcome, val |-> val]]
  /\ carg' = [carg EXCEPT ![c] = NoArg]
  /\ lock' = lock \ {c}

\* faulty variant of SendLog: the message is logged whatever write_all returned
SendLogAlways(messages, text, ok) == Push(messages, text)

\* if stream.write_all(..).is_ok() { messages.push(message.to_owned()) }
SendLog(messages, text, ok) == IF ok THEN Push(messages, text) ELSE messages

\* Server::send_message
SendMessage(c) ==
  /\ cpc[c] = "locked"
  /\ carg[c].op = "send"
  /\ LET id == carg[c].id
         text == carg[c].text
     IN
     IF id \notin DOMAIN connections
       THEN \* line 38: unwrap on None, with the guard alive
            /\ cpc' = [cpc EXCEPT ![c] = "panicked"]
            /\ cres' = [cres EXCEPT ![c] = [op |-> "send", id |-> id,
                                            outcome |-> "panic", val |-> <<>>]]
            /\ poisoned' = TRUE
            /\ lock' = lock \ {c}
            /\ poison_cause' = 38
            /\ UNCHANGED <<connections, appended, carg>>
       ELSE \E ok \in WriteOutcomes(sock[id]) :
            IF ok
              THEN /\ connections' = [connections EXCEPT
                                        ![id] = SendLog(@, text, ok)]
                   /\ appended' = [appended EXCEPT
                                     ![id] = @ \cup {<<tick[c], text>>}]
                   /\ Done(c, "ok", <<>>)
                   /\ UNCHANGED <<poisoned, poison_cause>>
              ELSE /\ connections' = [connections EXCEPT
                                        ![id] = SendLog(@, text, ok)]
                   /\ Done(c, "write_failed", <<>>)
                   /\ UNCHANGED <<poisoned, appended, poison_cause>>
  /\ UNCHANGED <<nsend, current_chat>>
  /\ UNCHANGED loopVars
  /\ UNCHANGED envVars
  /\ UNCHANGED <<assigned, accepted, nticket, tick, last_read>>

\* faulty variant of Messages: an unknown identity yields an empty log, not None
MessagesOrEmpty(conns, id) ==
  IF id \in DOMAIN conns THEN <<conns[id]>> ELSE << <<>> >>

\* the Option<Vec<String>> get_messages returns: <<>> is None, <<v>> is Some(v)
Messages(conns, id) ==
  IF id \in DOMAIN conns THEN <<conns[id]>> ELSE <<>>

\* Server::get_messages
GetMessages(c) ==
  /\ cpc[c] = "locked"
  /\ carg[c].op = "get"
  /\ Done(c, "ok", Messages(connections, carg[c].id))
  /\ UNCHANGED <<connections, poisoned, nsend, current_chat>>
  /\ UNCHANGED loopVars
  /\ UNCHANGED envVars
  /\ UNCHANGED histVars

\* conns.len()
ConnLen(conns) == Cardinality(DOMAIN conns)

\* Server::number_of_connections
NumberOfConnections(c) ==
  /\ cpc[c] = "locked"
  /\ carg[c].op = "count"
  /\ Done(c, "ok", <<ConnLen(connections)>>)
  /\ UNCHANGED <<connections, poisoned, nsend, current_chat>>
  /\ UNCHANGED loopVars
  /\ UNCHANGED envVars
  /\ UNCHANGED histVars

\* connections.keys().sorted()
SortedKeys(conns) == SortedSeq(DOMAIN conns)

\* ui: the tab titles are the sorted keys, read under the lock
UiKeys(c) ==
  /\ cpc[c] = "locked"
  /\ carg[c].op = "ids"
  /\ Done(c, "ok", <<SortedKeys(connections)>>)
  /\ UNCHANGED <<connections, poisoned, nsend, current_chat>>
  /\ UNCHANGED loopVars
  /\ UNCHANGED envVars
  /\ UNCHANGED histVars

\* self.current_chat.unwrap_or(0)
UnwrapOr0(opt) == IF opt = <<>> THEN 0 ELSE opt[1]

\* faulty variant of NextChat: the index is not wrapped at the number of tabs
NextChatNoWrap(cur, len) == IF len > 0 THEN <<UnwrapOr0(cur) + 1>> ELSE cur

\* if conns.len() > 0 { Some((current_chat.unwrap_or(0) + 1) % conns.len()) }
NextChat(cur, len) == IF len > 0 THEN <<(UnwrapOr0(cur) + 1) % len>> ELSE cur

\* App::next: the guard is taken first, the index moves only if a tab exists
AppNext(c) ==
  /\ cpc[c] = "locked"
  /\ carg[c].op = "next"
  /\ current_chat' = NextChat(current_chat, ConnLen(connections))
  /\ Done(c, "ok", <<>>)
  /\ UNCHANGED <<connections, poisoned, nsend>>
  /\ UNCHANGED loopVars
  /\ UNCHANGED envVars
  /\ UNCHANGED histVars

\* App::previous, Some(n) with n > 0: Some(n - 1), without the lock
AppPreviousDec ==
  /\ cpc[UiThread] = "idle"
  /\ current_chat # <<>>
  /\ current_chat[1] > 0
  /\ current_chat' = <<current_chat[1] - 1>>
  /\ UNCHANGED <<connections, lock, poisoned, cpc, carg, cres, nsend>>
  /\ UNCHANGED loopVars
  /\ UNCHANGED envVars
  /\ UNCHANGED histVars

\* App::previous, Some(0): Some(conns.len() - 1) under the lock. On an empty
\* map the usize subtraction overflows with the guard alive: a panic in a
\* build with overflow checks, the wrapped value (written -1) in one without.
AppPrevious(c) ==
  /\ cpc[c] = "locked"
  /\ carg[c].op = "previous"
  /\ IF ConnLen(connections) > 0
       THEN /\ current_chat' = <<ConnLen(connections) - 1>>
            /\ Done(c, "ok", <<>>)
            /\ UNCHANGED <<poisoned, poison_cause>>
       ELSE \/ /\ cpc' = [cpc EXCEPT ![c] = "panicked"]
               /\ cres' = [cres EXCEPT ![c] = [op |-> "previous", id |-> 0,
                                               outcome |-> "panic", val |-> <<>>]]
               /\ poisoned' = TRUE
               /\ lock' = lock \ {c}
               /\ poison_cause' = 69
               /\ UNCHANGED <<carg, current_chat>>
            \/ /\ current_chat' = <<-1>>
               /\ Done(c, "ok", <<>>)
               /\ UNCHANGED <<poisoned, poison_cause>>
  /\ UNCHANGED <<connections, nsend>>
  /\ UNCHANGED loopVars
  /\ UNCHANGED envVars
  /\ UNCHANGED <<assigned, accepted, nticket, tick, appended, last_read>>

\* ------------------------------------------------------------ Next
Next ==
  \/ LoopBind
  \/ LoopBindFail
  \/ LoopPoll
  \/ LoopAcceptFail
  \/ LoopAccept
  \/ LoopInsertLock
  \/ LoopInsert
  \/ LoopReadLock
  \/ LoopRead
  \/ ClientConnect
  \/ \E n \in ConnIds, chunk \in ClientChunks : ClientSend(n, chunk)
  \/ \E n \in ConnIds : ClientClose(n)
  \/ \E n \in ConnIds : ClientReset(n)
  \/ \E c \in Callers, id \in CallIds, text \in OutTexts :
       CallLock(c, "send", id, text)
  \/ \E c \in Callers, id \in CallIds : CallLock(c, "get", id, <<>>)
  \/ \E c \in Callers : CallLock(c, "count", 0, <<>>)
  \/ \E c \in Callers : CallLock(c, "ids", 0, <<>>)
  \/ \E c \in Callers : SendMessage(c)
  \/ \E c \in Callers : GetMessages(c)
  \/ \E c \in Callers : NumberOfConnections(c)
  \/ \E c \in Callers : UiKeys(c)
  \/ CallLock(UiThread, "next", 0, <<>>)
  \/ CallLock(UiThread, "previous", 0, <<>>)
  \/ AppNext(UiThread)
  \/ AppPreviousDec
  \/ AppPrevious(UiThread)

Spec == Init /\ [][Next]_vars

\* a thread that holds a guard is running: nothing it does under the lock
\* blocks (the sockets are non-blocking), so it reaches the end of its
\* critical section
HolderStep ==
  \/ LoopInsert
  \/ LoopRead
  \/ \E c \in Callers : SendMessage(c)
  \/ \E c \in Callers : GetMessages(c)
  \/ \E c \in Callers : NumberOfConnections(c)
  \/ \E c \in Callers : UiKeys(c)
  \/ AppNext(UiThread)
  \/ AppPrevious(UiThread)

\* the loop thread blocked in connections.lock() is woken when the Mutex is
\* released, and is not passed over for ever
LoopLockStep == LoopInsertLock \/ LoopReadLock

SpecFair == Spec /\ WF_vars(HolderStep) /\ SF_vars(LoopLockStep)

\* ================================================================ claims
Range(f) == {f[x] : x \in DOMAIN f}

\* C1: the identities given to accepted connections start at 1, increase
\* strictly in accept order, and none is given twice, whatever has closed.
C1_IdentitiesIncrease ==
  /\ Len(assigned) > 0 => assigned[1] = 1
  /\ \A i, j \in 1..Len(assigned) : i < j => assigned[i] < assigned[j]
  /\ Cardinality(DOMAIN connections) = Len(assigned)

\* two identities have been given, the second while the first peer is gone
C1_Witness ==
  /\ Len(assigned) = 2
  /\ sock[1].peer = "closed"
  /\ DOMAIN connections = {1, 2}

\* C10: a connection's log only grows at its end: across every step an
\* identity of the Registry stays in it and its log before is a prefix of
\* its log after.
C10_LogAppendOnly ==
  [][\A id \in DOMAIN connections :
       /\ id \in DOMAIN connections'
       /\ IsPrefix(connections[id], connections'[id])]_vars

\* a log that has been appended to twice, by a read and by a send
C10_Witness ==
  \E id \in DOMAIN connections :
    /\ Len(connections[id]) >= 2
    /\ <<98>> \in Range(connections[id])
    /\ <<97>> \in Range(connections[id])

\* C7: the log of an identity holds exactly the entries pushed by the
\* completed reads and sends for it, one each, in the order in which those
\* operations acquired the lock.
C7_HistoryInLockOrder ==
  \A id \in DOMAIN connections :
    /\ Len(connections[id]) = Cardinality(appended[id])
    /\ \A i \in 1..Len(connections[id]) :
         \E e \in appended[id] :
           /\ e[2] = connections[id][i]
           /\ Cardinality({f \in appended[id] : f[1] < e[1]}) = i - 1

\* a send and a read for the same identity have both appended
C7_Witness ==
  \E id \in DOMAIN connections :
    /\ Cardinality(appended[id]) >= 2
    /\ \E e, f \in appended[id] : e[2] = <<98>> /\ f[2] = <<97>> /\ e[1] < f[1]

\* C9: get_messages returns None for an identity that is not in the Registry
\* and otherwise the log as it is under the lock; the call changes no log
\* and no key, and what it returned stays as it is while appends go on.
C9_HistoryIsCopy ==
  [][\A c \in Callers :
       /\ (cpc[c] = "locked" /\ carg[c].op = "get" /\ cpc'[c] = "idle") =>
            /\ cres'[c].val =
                 (IF carg[c].id \in DOMAIN connections
                    THEN <<connections[carg[c].id]>> ELSE <<>>)
            /\ connections' = connections
       /\ (cres[c].op = "get" /\ cpc[c] = "idle" /\ cpc'[c] = "idle") =>
            cres'[c] = cres[c]]_vars

\* a copy was returned and the log has grown since
C9_Witness ==
  \E c \in Callers :
    /\ cres[c].op = "get"
    /\ cres[c].val # <<>>
    /\ cres[c].id \in DOMAIN connections
    /\ Len(connections[cres[c].id]) > Len(cres[c].val[1])

\* C2: a send to an identity that is not in the Registry returns
\* UnknownConnection to its caller and leaves the lock usable.
C2_UnknownSendIsTyped ==
  \A c \in Callers :
    (cres[c].op = "send" /\ cres[c].outcome # "poisoned"
       /\ cres[c].id \notin DOMAIN connections) =>
      /\ cres[c].outcome = "UnknownConnection"
      /\ cpc[c] # "panicked"
      /\ ~poisoned

\* C3: once the loop has handled a read that returned 0 bytes or an I/O
\* error, the identity is no longer in the Registry.
C3_ClosedIsRemoved ==
  last_read.outcome \in {"eof", "err"} => last_read.id \notin DOMAIN connections

\* C4: after a send whose write failed the identity is no longer in the
\* Registry.
C4_FailedWriteRemoves ==
  \A c \in Callers :
    (cres[c].op = "send" /\ cres[c].outcome = "write_failed") =>
      cres[c].id \notin DOMAIN connections

\* C5: after a read of bytes that are not valid text the loop has not
\* crashed and the connection is still in the Registry.
C5_MalformedIsDropped ==
  last_read.outcome = "invalid" =>
    /\ loop_pc # "panicked"
    /\ ~poisoned
    /\ last_read.id \in DOMAIN connections

\* C6: no per-connection error (unknown identity, transport error,
\* undecodable bytes) stops the loop or leaves the lock unusable for the
\* operations on other connections.
C6_ErrorsAreIsolated ==
  /\ ~poisoned
  /\ panic_at \notin {92, 100, 101, 108}

\* C8: whenever the loop is not in the middle of its accept arm, the keys
\* of the Registry (and so count() and ids()) are exactly the accepted
\* connections (remove is never called).
C8_KeysAreAccepted ==
  loop_pc \notin {"insert", "insert_locked"} =>
    /\ DOMAIN connections = accepted
    /\ ConnLen(connections) = Len(SortedKeys(connections))

\* C11: a send to an identity of the Registry puts its text at the end of
\* that identity's log when the write succeeded and leaves that log as it
\* was when the write failed; every other log and the key set are unchanged.
C11_SendAppendsIffWritten ==
  [][\A c \in Callers :
       (cpc[c] = "locked" /\ carg[c].op = "send" /\ cpc'[c] = "idle") =>
         LET id == carg[c].id IN
         /\ id \in DOMAIN connections
         /\ DOMAIN connections' = DOMAIN connections
         /\ cres'[c].outcome = "ok" =>
              connections'[id] = Append(connections[id], carg[c].text)
         /\ cres'[c].outcome # "ok" =>
              /\ cres'[c].outcome = "write_failed"
              /\ connections'[id] = connections[id]
         /\ \A o \in DOMAIN connections \ {id} :
              connections'[o] = connections[o]]_vars

\* a send whose write failed has returned and the log holds only the read
C11_Witness ==
  \E c \in Callers :
    /\ cres[c].op = "send"
    /\ cres[c].outcome = "write_failed"
    /\ cres[c].id \in DOMAIN connections
    /\ connections[cres[c].id] = << <<97>> >>

\* C12: handling one notification of the listener accepts every connection
\* that is pending, so that no connection is left in the accept queue while
\* the loop waits in poll with no notification of the listener outstanding.
C12_NoPendingStranded ==
  (loop_pc = "poll" /\ pending > 0) => SERVER \in ready

\* C13: a failed accept does not end the loop thread.
C13_AcceptFailureSurvived ==
  panic_at # 81

\* C14: once the listener could not be bound, the process serves no
\* operation of the Server to the consumer.
C14_BindFailureIsFatal ==
  [][panic_at = 57 => (cpc' = cpc /\ cres' = cres)]_vars

\* threads that are between taking a guard and dropping it
InCritical ==
  {c \in Callers : cpc[c] = "locked"}
    \cup (IF loop_pc \in {"insert_locked", "read_locked"} THEN {LoopThread} ELSE {})

\* C16: every thread that is at an access of the map or of a record holds
\* the lock, and at most one thread does at any moment.
C16_MutualExclusion ==
  /\ InCritical \subseteq lock
  /\ Cardinality(lock) <= 1
  /\ Cardinality(InCritical) <= 1

\* a caller is inside its operation while the loop waits to insert
C16_Witness ==
  /\ loop_pc = "insert"
  /\ \E c \in Callers : lock = {c} /\ cpc[c] = "locked"

\* C18: a read that returned bytes which decode appends the text of exactly
\* those bytes as one entry to the log of its identity, and changes no
\* other log and no key.
C18_ReadAppendsItsText ==
  [][LET n == Head(events) IN
     (/\ loop_pc = "read_locked"
      /\ loop_pc' # "read_locked"
      /\ n \in DOMAIN connections
      /\ ReadKind(sock[n]) = "data"
      /\ Utf8Valid(FillBuf(ReadBytes(sock[n])))) =>
       /\ DOMAIN connections' = DOMAIN connections
       /\ connections'[n] = Append(connections[n], ReadBytes(sock[n]))
       /\ \A o \in DOMAIN connections \ {n} : connections'[o] = connections[o]]_vars

\* C19: when the loop looks up the record of a connection token, the token
\* is a key of the Registry, so the lookup of line 101 never misses.
C19_LookupNeverMisses ==
  /\ loop_pc = "read_locked" => Head(events) \in DOMAIN connections
  /\ panic_at # 101

\* the loop is at the lookup for the second connection after a caller's send
C19_Witness ==
  /\ loop_pc = "read_locked"
  /\ Head(events) = 2
  /\ \E c \in Callers : cres[c].op = "send"

\* C20: the UI's tab index, when it is Some(n), is below the number of
\* connections and n + 1 is a key of the Registry; previous() never
\* subtracts from the length of an empty Registry.
C20_TabIndexInRange ==
  /\ current_chat # <<>> =>
       /\ current_chat[1] >= 0
       /\ current_chat[1] < ConnLen(connections)
       /\ current_chat[1] + 1 \in DOMAIN connections
  /\ (cpc[UiThread] = "locked" /\ carg[UiThread].op = "previous") =>
       ConnLen(connections) > 0
  /\ poison_cause # 69

\* previous() at tab 0 wrapped to the last of two tabs
C20_Witness ==
  /\ current_chat = <<1>>
  /\ cres[UiThread].op = "previous"
  /\ ConnLen(connections) = 2

\* the loop thread is blocked in connections.lock()
LoopWaiting ==
  \/ loop_pc = "insert"
  \/ loop_pc = "dispatch" /\ Head(events) # SERVER

C17_BatchIsHandled == loop_pc = "panicked" => Len(events) <= 1

====
